---- MODULE Spec2Model ----
(***************************************************************************)
(* State-machine model of the sayless tool handlers: the voice agent       *)
(* (sayless/src/agent.ts), its two earlier variants (unnamed/part_000) and *)
(* the text server (langchain/js_server/src/tools.ts).                     *)
(*                                                                         *)
(* A JavaScript string is a sequence of one-character strings, so that     *)
(* startsWith, endsWith, split/join and name normalization are computed    *)
(* and not assumed.  In a session the conversational layer (language model *)
(* + user) invokes one tool at a time; every await on an external provider *)
(* is a separate step whose response is chosen by the environment.  Spec   *)
(* follows one session; SpecSessions interleaves two sessions of the same  *)
(* process, which share the module-level chain table.                      *)
(***************************************************************************)
EXTENDS Integers, Sequences, FiniteSets, TLC

VARIABLES
    variant,   \* which program runs this session
    pc,        \* "idle", the provider the running handler awaits, or "done"
    op,        \* the handler invoked last ("none" before the first)
    args,      \* its arguments
    local,     \* its local variables that live across an await
    calls,     \* external requests issued by this invocation, in order
    result,    \* how the invocation ended: returned text or thrown error
    conf,      \* confirmation protocol state of the session (instructions)
    reply,     \* the user's last answer not yet acted upon
    chainTable, \* the module-level object CHAIN_IDS, shared by all sessions
    env,       \* process.env: the credentials the requests are signed with
    other,     \* the second session (or run), while it is not running
    room       \* the job: position of entry, the participant, the realtime session

vars == <<variant, pc, op, args, local, calls, result, conf, reply,
          chainTable, env, other, room>>

----------------------------------------------------------------------------
(* Bounds of the model *)

\* longest token list a search response carries
MaxTokens == 2

\* the most "no" answers counted in one run of the confirmation protocol
MaxRounds == 2

----------------------------------------------------------------------------
(* Strings *)

Eth == <<".", "e", "t", "h">>
Ox == <<"0", "x">>

\* String.prototype.startsWith / endsWith
startsWith(s, p) == Len(s) >= Len(p) /\ SubSeq(s, 1, Len(p)) = p
endsWith(s, p) == Len(s) >= Len(p) /\ SubSeq(s, Len(s) - Len(p) + 1, Len(s)) = p

\* the characters the sample identifiers are written in
Disallowed == {" "}

toLowerCase(c) ==
    CASE c = "A" -> "a"
      [] c = "B" -> "b"
      [] c = "E" -> "e"
      [] c = "T" -> "t"
      [] c = "H" -> "h"
      [] OTHER -> c

\* a name with an empty label: leading, trailing or doubled "."
HasEmptyLabel(s) ==
    /\ s # <<>>
    /\ \/ s[1] = "."
       \/ s[Len(s)] = "."
       \/ \E i \in 1..(Len(s) - 1) : s[i] = "." /\ s[i + 1] = "."

\* viem/ens normalize (ENSIP-15) on this alphabet: the empty name is
\* allowed, a disallowed character or an empty label throws, ASCII
\* upper-case letters are mapped to lower case, everything else is kept.
normalize(s) ==
    IF \E i \in 1..Len(s) : s[i] \in Disallowed
    THEN [ok |-> FALSE, name |-> <<>>, message |-> <<"disallowed character">>]
    ELSE IF HasEmptyLabel(s)
    THEN [ok |-> FALSE, name |-> <<>>, message |-> <<"empty label">>]
    ELSE [ok |-> TRUE, name |-> [i \in 1..Len(s) |-> toLowerCase(s[i])],
          message |-> <<>>]

\* name.endsWith('.eth') ? name : `${name}.eth`
withSuffix(name) == IF endsWith(name, Eth) THEN name ELSE name \o Eth

\* normalize(name.endsWith('.eth') ? name : `${name}.eth`)
ensNameOf(name) == normalize(withSuffix(name))

\* addressOrName.startsWith('0x')
IsAddressInverted(addressOrName) == ~startsWith(addressOrName, Ox)
IsAddress(addressOrName) == startsWith(addressOrName, Ox)

\* currentAttempt.split('').join(', ')
joinUnseparated(chars) == chars
RECURSIVE join(_)
join(chars) ==
    IF Len(chars) <= 1 THEN chars
    ELSE <<chars[1], ",", " ">> \o join(Tail(chars))

----------------------------------------------------------------------------
(* Chain registry *)

CHAIN_IDS ==
    [ethereum |-> "1", base |-> "8453", polygon |-> "137",
     arbitrum |-> "42161", optimism |-> "10", avalanche |-> "43114"]

\* CHAIN_IDS[chain as keyof typeof CHAIN_IDS]: a missing key reads as
\* undefined, which the URL template prints as "undefined"
ChainIdOfEthereum(chain) == "1"
ChainIdOf(chain) ==
    IF chain \in DOMAIN chainTable THEN chainTable[chain] ELSE "undefined"

----------------------------------------------------------------------------
(* Programs and their tools *)

Variants == {"agent", "server", "agentPrice", "agentBasic"}

ToolsOf(v) ==
    CASE v = "agent" ->
           {"confirmEnsName", "spellEnsName", "getWalletBalance",
            "getTransactionHistory", "confirmTokenName", "getTokenPrice",
            "createCircleWallet", "fundWallet"}
      [] v = "server" ->
           {"confirmEnsName", "spellEnsName", "getWalletBalance",
            "getTransactionHistory", "createCircleWallet", "fundWallet"}
      [] v = "agentPrice" ->
           {"confirmEnsName", "spellEnsName", "getWalletBalance",
            "getTransactionHistory", "getTokenPrice"}
      [] v = "agentBasic" ->
           {"confirmEnsName", "spellEnsName", "getWalletBalance",
            "getTransactionHistory"}

----------------------------------------------------------------------------
(* Arguments the conversational layer may pass *)

\* "ab", "ab.eth", "Ab", "ab.ETH", "a b", "", "0xab", "0x"
Identifiers ==
    { <<"a", "b">>,
      <<"a", "b", ".", "e", "t", "h">>,
      <<"A", "b">>,
      <<"a", "b", ".", "E", "T", "H">>,
      <<"a", " ", "b">>,
      <<>>,
      <<"0", "x", "a", "b">>,
      <<"0", "x">> }

\* two registered chains and one that is not
Chains == {"ethereum", "base", "solana"}

\* limit: z.number().optional()
NoLimit == [given |-> FALSE, n |-> 0]
Limits == {NoLimit} \cup {[given |-> TRUE, n |-> k] : k \in {-1, 0, 5, 10, 100, 150}}

TokenNames == {"weth", "etherium"}
Blockchains == {"MATIC-AMOY", "SOL-DEVNET", "ETH-SEPOLIA"}
AccountTypes == {"SCA", "EOA"}
WalletAddresses == {"0xW1", "0xW2"}

----------------------------------------------------------------------------
(* Responses of the external providers *)

\* publicClient.getEnsAddress: an address, null (no match), or a rejection
EnsResponses ==
    { [kind |-> "address", address |-> <<"0", "x", "c", "d">>],
      [kind |-> "address", address |-> <<>>],
      [kind |-> "null", address |-> <<>>],
      [kind |-> "throw", address |-> <<>>] }

Statuses == {200, 404, 500}
\* response.ok
okAlways(status) == TRUE
ok(status) == status >= 200 /\ status <= 299

\* fetch(...) then response.json(): the fetch rejects, or answers with a
\* status and a body that parses (valid) or does not
HttpResponses(bodies) ==
    { [kind |-> "reject", status |-> 0, valid |-> FALSE, body |-> b] :
          b \in {CHOOSE x \in bodies : TRUE} }
    \cup [kind : {"response"}, status : Statuses, valid : BOOLEAN, body : bodies]

BalancePayloads == {"P1", "P2"}
HistoryPayloads == {"H1", "H2"}

Tokens ==
    { [symbol |-> "WETH", name |-> "Wrapped Ether", address |-> "0xT1"],
      [symbol |-> "ETH2", name |-> "Ether Two", address |-> "0xT2"] }
TokenAddresses == {t.address : t \in Tokens}
Prices == {"1800", "2"}

TokenLists == UNION {[1..n -> Tokens] : n \in 0..MaxTokens}

\* JSON bodies of the token search: a list, an object with or without a
\* tokens field, or null
SearchBodies ==
    {[shape |-> "array", hasTokens |-> FALSE, items |-> l] : l \in TokenLists}
    \cup {[shape |-> "object", hasTokens |-> TRUE, items |-> l] : l \in TokenLists}
    \cup {[shape |-> "object", hasTokens |-> FALSE, items |-> <<>>],
          [shape |-> "null", hasTokens |-> FALSE, items |-> <<>>]}

\* JSON bodies of the spot price: { tokenAddress: price } for some addresses
PriceBodies == UNION {[S -> Prices] : S \in SUBSET TokenAddresses}

\* client.createWallets: rejects, answers without data, with an empty
\* wallet list, or with the wallet it created
CreateResponses ==
    [kind : {"reject", "nodata", "empty"}, address : {"none"}]
    \cup [kind : {"wallet"}, address : WalletAddresses]

FaucetBodies == [status : {"pending"}, message : {"", "rate limited"}]

----------------------------------------------------------------------------
(* Requests *)

EnsRequestUnnamed(name) == [api |-> "getEnsAddress", name |-> <<>>]
EnsRequest(name) == [api |-> "getEnsAddress", name |-> name]

BalanceRequest(chainId, address) ==
    [api |-> "balance", chainId |-> chainId, address |-> address]

HistoryRequest(chainId, address, limit) ==
    [api |-> "history", chainId |-> chainId, address |-> address, limit |-> limit]

SearchRequest(chainId, query) ==
    [api |-> "search", chainId |-> chainId, query |-> query]

PriceRequest(chainId, tokens) ==
    [api |-> "price", chainId |-> chainId, tokens |-> tokens]

CreateWalletsRequest(accountType, blockchains) ==
    [api |-> "createWallets", accountType |-> accountType,
     blockchains |-> blockchains, count |-> 1]

FaucetRequest(address, blockchain) ==
    [api |-> "faucet", destinationAddress |-> address, blockchain |-> blockchain]

----------------------------------------------------------------------------
(* Results and texts *)

Returned(text) == [outcome |-> "returned", text |-> text]
Thrown(message) == [outcome |-> "thrown", message |-> message]
NoResult == [outcome |-> "none"]

\* values of INCH_API_KEY and CIRCLE_API_KEY in .env.local: two keys as the
\* providers issue them, and one that was pasted with a line break inside
ApiKeys == {"key-1", "key-2", "key<LF>3"}
ProcessEnv == [INCH_API_KEY |-> "key-1", CIRCLE_API_KEY |-> "key-1"]

\* 'Authorization': `Bearer ${process.env.INCH_API_KEY}`
Authorization(apiKey) == <<"Bearer ", apiKey>>

\* fetch builds a Headers object first: a value with a line break inside is
\* not a header value, and fetch rejects before anything is sent
IsHeaderValue(value) == value[2] # "key<LF>3"

\* error.message of the errors the handlers can meet
FetchFailed == <<"fetch failed">>
InvalidHeader(value) ==
    <<"Headers.append: \"", value[1], value[2], "\" is an invalid header value.">>

\* the rejection of fetch(url, {headers: {Authorization: value}})
FetchError(value) ==
    IF IsHeaderValue(value) THEN FetchFailed ELSE InvalidHeader(value)

\* the answers fetch can give to a request with this Authorization header
MayAnswer(value, r) == IsHeaderValue(value) \/ r.kind = "reject"
BadJson == <<"Unexpected token">>
NullRead == <<"Cannot read properties">>
StatusError(prefix, status) == <<prefix, status>>

\* the locals of a handler that are read after an await
Unset == [kind |-> "unset", address |-> <<>>]
UnsetBody == [shape |-> "unset", hasTokens |-> FALSE, items |-> <<>>]
NoResponse == [kind |-> "unset", status |-> 0]
NoLocal == [ensName |-> <<>>, address |-> Unset, resolvedAddress |-> <<>>,
            queryLimit |-> 0, response |-> NoResponse, data |-> "unset",
            searchData |-> UnsetBody,
            wallet |-> [address |-> "unset", blockchain |-> "unset"],
            token |-> [symbol |-> "", name |-> "", address |-> ""]]

ConfirmPrompt(ensName) == [tmpl |-> "confirm", ensName |-> ensName]
SpellPrompt(spelled) == [tmpl |-> "spell", spelled |-> spelled]
CouldNotResolveUnnamed(ensName) == [tmpl |-> "could not resolve", ensName |-> <<>>]
CouldNotResolve(ensName) == [tmpl |-> "could not resolve", ensName |-> ensName]
BalanceText(addressOrName, resolvedAddress, data) ==
    [tmpl |-> "balances", addressOrName |-> addressOrName,
     resolvedAddress |-> resolvedAddress, data |-> data]
BalanceError(message) == [tmpl |-> "balance error", message |-> message]
MaxLimitText == [tmpl |-> "maximum limit"]
HistoryText(queryLimit, addressOrName, resolvedAddress, data) ==
    [tmpl |-> "transactions", queryLimit |-> queryLimit,
     addressOrName |-> addressOrName, resolvedAddress |-> resolvedAddress,
     data |-> data]
HistoryError(message) == [tmpl |-> "history error", message |-> message]

----------------------------------------------------------------------------
(* Initial state: a session has started, no tool has been invoked *)

\* how far the confirmation of an identifier has come, and how many times
\* the user has answered "no" since it was proposed
NoConfirmation == [state |-> "Idle", id |-> <<>>, refusals |-> 0]

\* a session in which no tool has been invoked
NoSession ==
    [pc |-> "idle", op |-> "none", args |-> <<>>, local |-> NoLocal,
     calls |-> <<>>, result |-> NoResult, conf |-> NoConfirmation,
     reply |-> "none", env |-> ProcessEnv]

\* the operations entry issues on the realtime session once agent.start has
\* resolved, in the order of the source
SessionSetup(v) ==
    IF v = "agentBasic"
    THEN <<"sessionUpdate", "conversation.item.create", "response.create">>
    ELSE <<"conversation.item.create", "response.create">>

\* ctx.room.on('participantDisconnected', ...) is registered
Listens(v) == v \in {"agent", "agentPrice"}

\* tools.ts defines tools only: it has no entry and no room
NoRoom ==
    [entry |-> "none", participant |-> "absent", events |-> <<>>,
     listening |-> FALSE, session |-> <<>>]

\* a job before entry runs
NewJob == [NoRoom EXCEPT !.entry = "connect"]

\* entry has returned and the participant talks to the session
RoomAfterEntry(v) ==
    IF v = "server" THEN NoRoom
    ELSE [entry |-> "returned", participant |-> "present", events |-> <<>>,
          listening |-> Listens(v), session |-> SessionSetup(v)]

Init ==
    /\ variant \in Variants
    /\ pc = "idle"
    /\ op = "none"
    /\ args = <<>>
    /\ local = NoLocal
    /\ calls = <<>>
    /\ result = NoResult
    /\ conf = NoConfirmation
    /\ reply = "none"
    /\ chainTable = CHAIN_IDS
    /\ env = ProcessEnv
    /\ other = NoSession
    /\ room = RoomAfterEntry(variant)

\* tools.ts declares its handlers with tool(fn, {schema}), which parses the
\* arguments with the schema before fn runs, so a chain outside
\* z.enum(Object.keys(CHAIN_IDS)) does not reach fn; the agents' execute
\* receives the arguments as the language model wrote them
SchemaAccepts(v, a) ==
    (v = "server" /\ "chain" \in DOMAIN a) => a.chain \in DOMAIN CHAIN_IDS

\* a handler starts: the conversational layer invokes one tool at a time
Begin(name, a) ==
    /\ pc = "idle"
    /\ name \in ToolsOf(variant)
    /\ SchemaAccepts(variant, a)
    /\ op' = name
    /\ args' = a

\* a handler ends, by return or by throw
Finish(r) ==
    /\ pc' = "done"
    /\ result' = r

\* the runtime hands the outcome to the conversational layer, which may
\* then invoke the next tool
Deliver ==
    /\ pc = "done"
    /\ pc' = "idle"
    /\ op' = "none"
    /\ args' = <<>>
    /\ local' = NoLocal
    /\ calls' = <<>>
    /\ result' = NoResult
    /\ UNCHANGED <<variant, chainTable, env, other, room, conf, reply>>

\* a handler suspends on an await
Await(provider) ==
    /\ pc' = provider
    /\ result' = NoResult

----------------------------------------------------------------------------
(* Confirmation protocol: confirmEnsName, spellEnsName and the user's       *)
(* answers as the instructions prescribe them                               *)

\* confirmEnsName.execute: no try/catch, a normalize error leaves the handler
confirmEnsName(name) ==
    /\ Begin("confirmEnsName", [name |-> name])
    /\ LET ensName == ensNameOf(name) IN
       IF ensName.ok
       THEN /\ Finish(Returned(ConfirmPrompt(ensName.name)))
            /\ conf' = [state |-> "Proposed", id |-> name, refusals |-> 0]
            /\ reply' = "none"
       ELSE /\ Finish(Thrown(ensName.message))
            /\ UNCHANGED <<conf, reply>>
    /\ calls' = <<>>
    /\ local' = NoLocal
    /\ UNCHANGED <<variant, chainTable, env, other, room>>

\* spellEnsName.execute
spellEnsNameOnce(currentAttempt) ==
    /\ conf.refusals <= 1
    /\ Begin("spellEnsName", [currentAttempt |-> currentAttempt])
    /\ Finish(Returned(SpellPrompt(join(currentAttempt))))
    /\ conf' = IF conf.state \in {"Proposed", "Spelling"}
               THEN [conf EXCEPT !.state = "Spelling", !.id = currentAttempt]
               ELSE conf
    /\ reply' = "none"
    /\ calls' = <<>>
    /\ local' = NoLocal
    /\ UNCHANGED <<variant, chainTable, env, other, room>>
spellEnsName(currentAttempt) ==
    /\ Begin("spellEnsName", [currentAttempt |-> currentAttempt])
    /\ Finish(Returned(SpellPrompt(join(currentAttempt))))
    /\ conf' = IF conf.state \in {"Proposed", "Spelling"}
               THEN [conf EXCEPT !.state = "Spelling", !.id = currentAttempt]
               ELSE conf
    /\ reply' = "none"
    /\ calls' = <<>>
    /\ local' = NoLocal
    /\ UNCHANGED <<variant, chainTable, env, other, room>>

\* the user answers the prompt: "yes" confirms the identifier, "no" asks
\* for the spelling
UserReplies(answer) ==
    /\ pc = "idle"
    /\ conf.state \in {"Proposed", "Spelling"}
    /\ reply = "none"
    /\ IF answer = "yes"
       THEN conf' = [conf EXCEPT !.state = "Confirmed"] /\ reply' = "none"
       ELSE /\ conf.refusals < MaxRounds
            /\ conf' = [conf EXCEPT !.refusals = @ + 1]
            /\ reply' = "no"
    /\ UNCHANGED <<variant, chainTable, env, other, room, pc, op, args, local, calls, result>>

\* the conversation moves to another topic: the confirmation is discarded
NewTurn ==
    /\ pc = "idle"
    /\ conf.state # "Idle"
    /\ conf' = NoConfirmation
    /\ reply' = "none"
    /\ UNCHANGED <<variant, chainTable, env, other, room, pc, op, args, local, calls, result>>

----------------------------------------------------------------------------
(* getWalletBalance *)

\* if (!address): null and the empty string are both falsy
NoMatchUnchecked(address) == FALSE
NoMatch(address) == address.kind = "null" \/ address.address = <<>>

\* the fetch of the balance, with ONLY the resolved address
DispatchBalance(a, l, resolvedAddress, issued) ==
    /\ calls' = Append(issued, BalanceRequest(ChainIdOf(a.chain), resolvedAddress))
    /\ local' = [l EXCEPT !.resolvedAddress = resolvedAddress]
    /\ Await("balance")

\* execute, up to the first await
getWalletBalance(addressOrName, chain) ==
    /\ Begin("getWalletBalance", [addressOrName |-> addressOrName, chain |-> chain])
    /\ IF IsAddress(addressOrName)
       THEN DispatchBalance([chain |-> chain], NoLocal, addressOrName, <<>>)
       ELSE LET ensName == ensNameOf(addressOrName) IN
            IF ensName.ok
            THEN /\ calls' = <<EnsRequest(ensName.name)>>
                 /\ local' = [NoLocal EXCEPT !.ensName = ensName.name]
                 /\ Await("ens")
            ELSE /\ calls' = <<>>
                 /\ local' = NoLocal
                 /\ Finish(Returned(BalanceError(ensName.message)))
    /\ UNCHANGED <<variant, chainTable, env, other, room, conf, reply>>

\* after await publicClient.getEnsAddress
getWalletBalance_resolved(r) ==
    /\ pc = "ens"
    /\ op = "getWalletBalance"
    /\ IF r.kind = "throw"
       THEN Finish(Returned(BalanceError(FetchFailed))) /\ UNCHANGED <<calls, local>>
       ELSE IF NoMatch(r)
       THEN /\ Finish(Returned(CouldNotResolve(local.ensName)))
            /\ local' = [local EXCEPT !.address = r]
            /\ UNCHANGED calls
       ELSE DispatchBalance(args, [local EXCEPT !.address = r], r.address, calls)
    /\ UNCHANGED <<variant, chainTable, env, other, room, op, args, conf, reply>>

\* const data = await response.json(), reached only with response.ok
ParsedBody(r) ==
    IF r.kind = "response" /\ ok(r.status) /\ r.valid THEN r.body ELSE "unset"

\* after await fetch and await response.json
getWalletBalance_response(r) ==
    /\ pc = "balance"
    /\ op = "getWalletBalance"
    /\ MayAnswer(Authorization(env.INCH_API_KEY), r)
    /\ Finish(Returned(
         IF r.kind = "reject"
         THEN BalanceError(FetchError(Authorization(env.INCH_API_KEY)))
         ELSE IF ~ok(r.status)
         THEN BalanceError(StatusError("1inch API returned status: ", r.status))
         ELSE IF ~r.valid THEN BalanceError(BadJson)
         ELSE BalanceText(args.addressOrName, local.resolvedAddress, r.body)))
    /\ local' = [local EXCEPT !.response = [kind |-> r.kind, status |-> r.status],
                              !.data = ParsedBody(r)]
    /\ UNCHANGED <<variant, chainTable, env, other, room, op, args, calls, conf, reply>>

----------------------------------------------------------------------------
(* getTransactionHistory *)

DefaultLimit == 10
MaxLimit == 100

\* limit || 10
queryLimitOf(limit) == IF ~limit.given \/ limit.n = 0 THEN DefaultLimit ELSE limit.n

\* the error text of a non-2xx history response
HistoryStatusPrefix(v) ==
    IF v \in {"agent", "server"}
    THEN "Transaction history API returned status: "
    ELSE "1inch API returned status: "

\* from "const queryLimit = limit || 10" to the fetch of the history
DispatchHistory(a, l, resolvedAddress, issued) ==
    LET queryLimit == queryLimitOf(a.limit) IN
    IF queryLimit > MaxLimit
    THEN /\ Finish(Returned(MaxLimitText))
         /\ calls' = issued
         /\ local' = [l EXCEPT !.resolvedAddress = resolvedAddress,
                               !.queryLimit = queryLimit]
    ELSE /\ calls' = Append(issued,
                 HistoryRequest(ChainIdOf(a.chain), resolvedAddress, queryLimit))
         /\ local' = [l EXCEPT !.resolvedAddress = resolvedAddress,
                               !.queryLimit = queryLimit]
         /\ Await("history")

\* execute, up to the first await
getTransactionHistory(addressOrName, chain, limit) ==
    /\ Begin("getTransactionHistory",
             [addressOrName |-> addressOrName, chain |-> chain, limit |-> limit])
    /\ IF IsAddress(addressOrName)
       THEN DispatchHistory([chain |-> chain, limit |-> limit], NoLocal,
                            addressOrName, <<>>)
       ELSE LET ensName == ensNameOf(addressOrName) IN
            IF ensName.ok
            THEN /\ calls' = <<EnsRequest(ensName.name)>>
                 /\ local' = [NoLocal EXCEPT !.ensName = ensName.name]
                 /\ Await("ens")
            ELSE /\ calls' = <<>>
                 /\ local' = NoLocal
                 /\ Finish(Returned(HistoryError(ensName.message)))
    /\ UNCHANGED <<variant, chainTable, env, other, room, conf, reply>>

\* after await publicClient.getEnsAddress
getTransactionHistory_resolved(r) ==
    /\ pc = "ens"
    /\ op = "getTransactionHistory"
    /\ IF r.kind = "throw"
       THEN Finish(Returned(HistoryError(FetchFailed))) /\ UNCHANGED <<calls, local>>
       ELSE IF NoMatch(r)
       THEN /\ Finish(Returned(CouldNotResolve(local.ensName)))
            /\ local' = [local EXCEPT !.address = r]
            /\ UNCHANGED calls
       ELSE DispatchHistory(args, [local EXCEPT !.address = r], r.address, calls)
    /\ UNCHANGED <<variant, chainTable, env, other, room, op, args, conf, reply>>

\* after await fetch and await historyResponse.json
getTransactionHistory_response(r) ==
    /\ pc = "history"
    /\ op = "getTransactionHistory"
    /\ MayAnswer(Authorization(env.INCH_API_KEY), r)
    /\ Finish(Returned(
         IF r.kind = "reject"
         THEN HistoryError(FetchError(Authorization(env.INCH_API_KEY)))
         ELSE IF ~ok(r.status)
         THEN HistoryError(StatusError(HistoryStatusPrefix(variant), r.status))
         ELSE IF ~r.valid THEN HistoryError(BadJson)
         ELSE HistoryText(local.queryLimit, args.addressOrName,
                          local.resolvedAddress, r.body)))
    /\ local' = [local EXCEPT !.response = [kind |-> r.kind, status |-> r.status],
                              !.data = ParsedBody(r)]
    /\ UNCHANGED <<variant, chainTable, env, other, room, op, args, calls, conf, reply>>

----------------------------------------------------------------------------
(* getTokenPrice and confirmTokenName *)

NotFoundText(tokenName, chain) ==
    [tmpl |-> "token not found", tokenName |-> tokenName, chain |-> chain]
PriceText(token, chain, price) ==
    [tmpl |-> "price", name |-> token.name, symbol |-> token.symbol,
     chain |-> chain, price |-> price]
PriceError(message) == [tmpl |-> "price error", message |-> message]
ConfirmTokenPrompt(name) == [tmpl |-> "confirm token", name |-> name]

\* confirmTokenName.execute
confirmTokenName(name) ==
    /\ Begin("confirmTokenName", [name |-> name])
    /\ Finish(Returned(ConfirmTokenPrompt(name)))
    /\ calls' = <<>>
    /\ local' = NoLocal
    /\ UNCHANGED <<variant, chainTable, env, other, room, conf, reply>>

\* the list the handler picks the token from: the body itself when it is
\* an array (agent.ts), the body's tokens field (earlier variant); a body
\* of another shape gives nothing to pick
FoundTokensLastFirst(v, searchData) ==
    IF searchData.shape \in {"array", "object"}
    THEN [i \in 1..Len(searchData.items) |->
              searchData.items[Len(searchData.items) + 1 - i]]
    ELSE <<>>
FoundTokens(v, searchData) ==
    IF v = "agent"
    THEN IF searchData.shape = "array" THEN searchData.items ELSE <<>>
    ELSE IF searchData.shape = "object" /\ searchData.hasTokens
         THEN searchData.items ELSE <<>>

\* searchData.tokens on a null body is a TypeError (earlier variant only)
SearchReadThrows(v, searchData) == v # "agent" /\ searchData.shape = "null"

\* !Array.isArray(searchData) || searchData.length === 0   (agent.ts)
\* !searchData.tokens || searchData.tokens.length === 0    (earlier variant)
NoTokenFoundShapeOnly(v, searchData) ==
    IF v = "agent" THEN searchData.shape # "array"
    ELSE ~(searchData.shape = "object" /\ searchData.hasTokens)
NoTokenFound(v, searchData) == Len(FoundTokens(v, searchData)) = 0

\* priceData[token.address]
PriceOf(priceData, address) ==
    IF address \in DOMAIN priceData THEN priceData[address] ELSE "undefined"

\* execute, up to the await of the token search
getTokenPrice(tokenName, chain) ==
    /\ Begin("getTokenPrice", [tokenName |-> tokenName, chain |-> chain])
    /\ calls' = <<SearchRequest(ChainIdOf(chain), tokenName)>>
    /\ local' = NoLocal
    /\ Await("search")
    /\ UNCHANGED <<variant, chainTable, env, other, room, conf, reply>>

\* after the token search answered
getTokenPrice_searched(r) ==
    /\ pc = "search"
    /\ op = "getTokenPrice"
    /\ MayAnswer(Authorization(env.INCH_API_KEY), r)
    /\ IF r.kind = "reject"
       THEN /\ Finish(Returned(PriceError(
                 FetchError(Authorization(env.INCH_API_KEY)))))
            /\ UNCHANGED <<calls, local>>
       ELSE IF ~ok(r.status)
       THEN /\ Finish(Returned(PriceError(
                 StatusError("Token search API returned status: ", r.status))))
            /\ UNCHANGED <<calls, local>>
       ELSE IF ~r.valid
       THEN Finish(Returned(PriceError(BadJson))) /\ UNCHANGED <<calls, local>>
       ELSE IF SearchReadThrows(variant, r.body)
       THEN /\ Finish(Returned(PriceError(NullRead)))
            /\ local' = [local EXCEPT !.searchData = r.body]
            /\ UNCHANGED calls
       ELSE IF NoTokenFound(variant, r.body)
       THEN /\ Finish(Returned(NotFoundText(args.tokenName, args.chain)))
            /\ local' = [local EXCEPT !.searchData = r.body]
            /\ UNCHANGED calls
       ELSE IF Len(FoundTokens(variant, r.body)) = 0
       THEN \* token is undefined: reading token.symbol is a TypeError
            /\ Finish(Returned(PriceError(NullRead)))
            /\ local' = [local EXCEPT !.searchData = r.body]
            /\ UNCHANGED calls
       ELSE LET token == FoundTokens(variant, r.body)[1] IN
            /\ calls' = Append(calls,
                    PriceRequest(ChainIdOf(args.chain), <<token.address>>))
            /\ local' = [local EXCEPT !.searchData = r.body, !.token = token]
            /\ Await("price")
    /\ UNCHANGED <<variant, chainTable, env, other, room, op, args, conf, reply>>

\* after the spot price answered
getTokenPrice_priced(r) ==
    /\ pc = "price"
    /\ op = "getTokenPrice"
    /\ MayAnswer(Authorization(env.INCH_API_KEY), r)
    /\ Finish(Returned(
         IF r.kind = "reject"
         THEN PriceError(FetchError(Authorization(env.INCH_API_KEY)))
         ELSE IF ~ok(r.status)
         THEN PriceError(StatusError("Spot price API returned status: ", r.status))
         ELSE IF ~r.valid THEN PriceError(BadJson)
         ELSE PriceText(local.token, args.chain,
                        PriceOf(r.body, local.token.address))))
    /\ local' = [local EXCEPT !.response = [kind |-> r.kind, status |-> r.status],
                              !.data = ParsedBody(r)]
    /\ UNCHANGED <<variant, chainTable, env, other, room, op, args, calls, conf, reply>>

----------------------------------------------------------------------------
(* createCircleWallet and fundWallet *)

CreatedText(accountType, blockchain, address, walletBlockchain) ==
    [tmpl |-> "created", accountType |-> accountType, blockchain |-> blockchain,
     address |-> address, walletBlockchain |-> walletBlockchain]
CreateFailed(message) == [tmpl |-> "create failed", message |-> message]
FundedText(status, address, blockchain) ==
    [tmpl |-> "funded", status |-> status, address |-> address,
     blockchain |-> blockchain]
FundFailed(message) == [tmpl |-> "fund failed", message |-> message]

\* the catch block: agent.ts returns the failure text, tools.ts throws it
Caught(v, text) == IF v = "server" THEN Thrown(text) ELSE Returned(text)

\* the request createWallets receives: tools.ts passes the arguments,
\* agent.ts asks for an EOA wallet on ETH-SEPOLIA whatever the arguments
WalletRequest(v, blockchain, accountType) ==
    IF v = "server"
    THEN CreateWalletsRequest(accountType, <<blockchain>>)
    ELSE CreateWalletsRequest("EOA", <<"ETH-SEPOLIA">>)

\* execute, up to await client.createWallets
createCircleWallet(blockchain, accountType) ==
    /\ Begin("createCircleWallet",
             [blockchain |-> blockchain, accountType |-> accountType])
    /\ calls' = <<WalletRequest(variant, blockchain, accountType)>>
    /\ local' = NoLocal
    /\ Await("createWallets")
    /\ UNCHANGED <<variant, chainTable, env, other, room, conf, reply>>

\* after await client.createWallets; the custody provider creates the
\* wallet on the first blockchain the request names
createCircleWallet_created(r) ==
    /\ pc = "createWallets"
    /\ op = "createCircleWallet"
    /\ Finish(
         IF r.kind = "reject" THEN Caught(variant, CreateFailed(FetchFailed))
         ELSE IF r.kind = "nodata"
         THEN IF variant = "server"
              THEN Thrown(CreateFailed(<<"Failed to create wallet: No wallet data returned">>))
              ELSE Returned(CreatedText(args.accountType, args.blockchain,
                                        "undefined", "undefined"))
         ELSE IF r.kind = "empty"
         THEN IF variant = "server"
              THEN Thrown(CreateFailed(<<"Failed to create wallet: No wallet data returned">>))
              ELSE Returned(CreateFailed(NullRead))
         ELSE Returned(CreatedText(args.accountType, args.blockchain,
                                   r.address, calls[1].blockchains[1])))
    /\ local' = IF r.kind = "wallet"
                THEN [local EXCEPT !.response = [kind |-> r.kind, status |-> 0],
                                   !.wallet = [address |-> r.address,
                                               blockchain |-> calls[1].blockchains[1]]]
                ELSE [local EXCEPT !.response = [kind |-> r.kind, status |-> 0]]
    /\ UNCHANGED <<variant, chainTable, env, other, room, op, args, calls, conf, reply>>

\* execute, up to await fetch of the faucet
fundWallet(address, blockchain) ==
    /\ Begin("fundWallet", [address |-> address, blockchain |-> blockchain])
    /\ calls' = <<FaucetRequest(address, blockchain)>>
    /\ local' = NoLocal
    /\ Await("faucet")
    /\ UNCHANGED <<variant, chainTable, env, other, room, conf, reply>>

\* data.message || 'Unknown error'
FaucetMessage(data) == IF data.message = "" THEN "Unknown error" ELSE data.message

\* const data = await response.json()
FaucetData(r) ==
    IF r.kind = "response" /\ r.valid THEN r.body
    ELSE [status |-> "unset", message |-> "unset"]

\* after await fetch and await response.json (parsed before response.ok is read)
fundWallet_response(r) ==
    /\ pc = "faucet"
    /\ op = "fundWallet"
    /\ MayAnswer(Authorization(env.CIRCLE_API_KEY), r)
    /\ Finish(
         IF r.kind = "reject"
         THEN Caught(variant,
                FundFailed(FetchError(Authorization(env.CIRCLE_API_KEY))))
         ELSE IF ~r.valid THEN Caught(variant, FundFailed(BadJson))
         ELSE IF ok(r.status)
         THEN Returned(FundedText(r.body.status, args.address, args.blockchain))
         ELSE Caught(variant,
                FundFailed(<<"API request failed: ", FaucetMessage(r.body)>>)))
    /\ local' = [local EXCEPT !.response = [kind |-> r.kind, status |-> r.status],
                              !.data = FaucetData(r)]
    /\ UNCHANGED <<variant, chainTable, env, other, room, op, args, calls, conf, reply>>

----------------------------------------------------------------------------
(* The session *)

Next ==
    \/ \E name \in Identifiers : confirmEnsName(name)
    \/ \E currentAttempt \in Identifiers : spellEnsName(currentAttempt)
    \/ \E answer \in {"yes", "no"} : UserReplies(answer)
    \/ NewTurn
    \/ \E addressOrName \in Identifiers, chain \in Chains :
          getWalletBalance(addressOrName, chain)
    \/ \E r \in EnsResponses : getWalletBalance_resolved(r)
    \/ \E r \in HttpResponses(BalancePayloads) : getWalletBalance_response(r)
    \/ \E addressOrName \in Identifiers, chain \in Chains, limit \in Limits :
          getTransactionHistory(addressOrName, chain, limit)
    \/ \E r \in EnsResponses : getTransactionHistory_resolved(r)
    \/ \E r \in HttpResponses(HistoryPayloads) : getTransactionHistory_response(r)
    \/ \E name \in TokenNames : confirmTokenName(name)
    \/ \E tokenName \in TokenNames, chain \in Chains : getTokenPrice(tokenName, chain)
    \/ \E r \in HttpResponses(SearchBodies) : getTokenPrice_searched(r)
    \/ \E r \in HttpResponses(PriceBodies) : getTokenPrice_priced(r)
    \/ \E blockchain \in Blockchains, accountType \in AccountTypes :
          createCircleWallet(blockchain, accountType)
    \/ \E r \in CreateResponses : createCircleWallet_created(r)
    \/ \E address \in WalletAddresses, blockchain \in Blockchains :
          fundWallet(address, blockchain)
    \/ \E r \in HttpResponses(FaucetBodies) : fundWallet_response(r)
    \/ Deliver

Spec == Init /\ [][Next]_vars

----------------------------------------------------------------------------
(* Two sessions of one process.  The handlers are async closures: the      *)
(* event loop may leave a handler at any await and run a step of the other *)
(* session; what a handler holds in its parameters and locals stays with   *)
(* its own invocation.                                                     *)

ThisSession ==
    [pc |-> pc, op |-> op, args |-> args, local |-> local, calls |-> calls,
     result |-> result, conf |-> conf, reply |-> reply, env |-> env]

\* as if resolvedAddress were declared at module level
SwitchSharingResolvedAddress ==
    /\ pc' = other.pc
    /\ op' = other.op
    /\ args' = other.args
    /\ local' = [other.local EXCEPT !.resolvedAddress = local.resolvedAddress]
    /\ calls' = other.calls
    /\ result' = other.result
    /\ conf' = other.conf
    /\ reply' = other.reply
    /\ env' = other.env
    /\ other' = ThisSession
    /\ UNCHANGED <<variant, chainTable, room>>

\* the event loop turns to the other session
Switch ==
    /\ pc' = other.pc
    /\ op' = other.op
    /\ args' = other.args
    /\ local' = other.local
    /\ calls' = other.calls
    /\ result' = other.result
    /\ conf' = other.conf
    /\ reply' = other.reply
    /\ env' = other.env
    /\ other' = ThisSession
    /\ UNCHANGED <<variant, chainTable, room>>

\* "0xab" and "Ab"
SessionIdentifiers == {<<"0", "x", "a", "b">>, <<"A", "b">>}
SessionChains == {"ethereum"}
SessionEnsResponses == {r \in EnsResponses : r.kind \in {"address", "null"}}
SessionResponses ==
    {r \in HttpResponses(BalancePayloads) :
        r.kind = "reject" \/ (r.valid /\ r.status \in {200, 404})}

NextSessions ==
    \/ \E name \in SessionIdentifiers : confirmEnsName(name)
    \/ \E currentAttempt \in SessionIdentifiers : spellEnsName(currentAttempt)
    \/ \E addressOrName \in SessionIdentifiers, chain \in SessionChains :
          getWalletBalance(addressOrName, chain)
    \/ \E r \in SessionEnsResponses : getWalletBalance_resolved(r)
    \/ \E r \in SessionResponses : getWalletBalance_response(r)
    \/ Deliver
    \/ Switch

SpecSessions == Init /\ [][NextSessions]_vars

----------------------------------------------------------------------------
(* Two runs of the program that differ only in the credentials of their    *)
(* environment; Switch turns from one run to the other.                    *)

Envs == {[INCH_API_KEY |-> k, CIRCLE_API_KEY |-> k] : k \in ApiKeys}

InitCredentials ==
    /\ variant \in Variants
    /\ pc = "idle"
    /\ op = "none"
    /\ args = <<>>
    /\ local = NoLocal
    /\ calls = <<>>
    /\ result = NoResult
    /\ conf = NoConfirmation
    /\ reply = "none"
    /\ chainTable = CHAIN_IDS
    /\ env \in Envs
    /\ \E e \in Envs \ {env} : other = [NoSession EXCEPT !.env = e]
    /\ room = RoomAfterEntry(variant)

NextCredentials ==
    \/ \E addressOrName \in SessionIdentifiers, chain \in SessionChains :
          getWalletBalance(addressOrName, chain)
    \/ \E r \in SessionEnsResponses : getWalletBalance_resolved(r)
    \/ \E r \in SessionResponses : getWalletBalance_response(r)
    \/ \E blockchain \in {"MATIC-AMOY"}, accountType \in AccountTypes :
          createCircleWallet(blockchain, accountType)
    \/ \E r \in CreateResponses : createCircleWallet_created(r)
    \/ Deliver
    \/ Switch

SpecCredentials == InitCredentials /\ [][NextCredentials]_vars

----------------------------------------------------------------------------
(* The text server and the voice agent side by side: the same tools are   *)
(* invoked in tools.ts and in agent.ts; SwitchProgram turns from one      *)
(* program to the other.                                                  *)

Programs == {"agent", "server"}

\* the operations tools.ts and agent.ts both define
SharedOps == ToolsOf("agent") \cap ToolsOf("server")

SwitchProgram ==
    /\ pc' = other.pc
    /\ op' = other.op
    /\ args' = other.args
    /\ local' = other.local
    /\ calls' = other.calls
    /\ result' = other.result
    /\ conf' = other.conf
    /\ reply' = other.reply
    /\ env' = other.env
    /\ other' = ThisSession
    /\ variant' = CHOOSE v \in Programs : v # variant
    /\ room' = RoomAfterEntry(variant')
    /\ UNCHANGED chainTable

InitPrograms ==
    /\ variant \in Programs
    /\ pc = "idle"
    /\ op = "none"
    /\ args = <<>>
    /\ local = NoLocal
    /\ calls = <<>>
    /\ result = NoResult
    /\ conf = NoConfirmation
    /\ reply = "none"
    /\ chainTable = CHAIN_IDS
    /\ env = ProcessEnv
    /\ other = NoSession
    /\ room = RoomAfterEntry(variant)

\* an absent limit, one in range, one above the ceiling
PairLimits == {l \in Limits : ~l.given \/ l.n \in {5, 150}}
PairFaucetResponses ==
    {r \in HttpResponses(FaucetBodies) :
        r.kind = "reject" \/ r.status \in {200, 500}}

NextPrograms ==
    \/ \E name \in SessionIdentifiers : confirmEnsName(name)
    \/ \E currentAttempt \in SessionIdentifiers : spellEnsName(currentAttempt)
    \/ \E addressOrName \in SessionIdentifiers, chain \in SessionChains :
          getWalletBalance(addressOrName, chain)
    \/ \E r \in SessionEnsResponses : getWalletBalance_resolved(r)
    \/ \E r \in SessionResponses : getWalletBalance_response(r)
    \/ \E addressOrName \in SessionIdentifiers, chain \in SessionChains,
          limit \in PairLimits :
          getTransactionHistory(addressOrName, chain, limit)
    \/ \E r \in SessionEnsResponses : getTransactionHistory_resolved(r)
    \/ \E r \in SessionResponses : getTransactionHistory_response(r)
    \/ \E blockchain \in {"MATIC-AMOY", "ETH-SEPOLIA"}, accountType \in AccountTypes :
          createCircleWallet(blockchain, accountType)
    \/ \E r \in CreateResponses : createCircleWallet_created(r)
    \/ \E address \in {"0xW1"}, blockchain \in {"MATIC-AMOY"} :
          fundWallet(address, blockchain)
    \/ \E r \in PairFaucetResponses : fundWallet_response(r)
    \/ Deliver
    \/ SwitchProgram

SpecPrograms == InitPrograms /\ [][NextPrograms]_vars

----------------------------------------------------------------------------
(* A confirmation and a lookup of the same program held side by side: one *)
(* session confirms an identifier while the other looks one up.           *)

\* "Ab", "ab.ETH", "a b" and "0xab"
LookupIdentifiers ==
    { <<"A", "b">>,
      <<"a", "b", ".", "E", "T", "H">>,
      <<"a", " ", "b">>,
      <<"0", "x", "a", "b">> }

NextLookups ==
    \/ \E name \in LookupIdentifiers : confirmEnsName(name)
    \/ \E addressOrName \in LookupIdentifiers, chain \in SessionChains :
          getWalletBalance(addressOrName, chain)
    \/ \E r \in SessionEnsResponses : getWalletBalance_resolved(r)
    \/ \E r \in SessionResponses : getWalletBalance_response(r)
    \/ \E addressOrName \in LookupIdentifiers, chain \in SessionChains :
          getTransactionHistory(addressOrName, chain, NoLimit)
    \/ \E r \in SessionEnsResponses : getTransactionHistory_resolved(r)
    \/ \E r \in SessionResponses : getTransactionHistory_response(r)
    \/ Deliver
    \/ Switch

SpecLookups == Init /\ [][NextLookups]_vars

----------------------------------------------------------------------------
(* entry: the life of one job, from ctx.connect to the participant's      *)
(* leaving. The room delivers its events between the awaits of entry.     *)

Agents == Variants \ {"server"}

EntryFrame ==
    UNCHANGED <<variant, pc, op, args, local, calls, result, conf, reply,
                chainTable, env, other>>

\* await ctx.connect()
entry_connect ==
    /\ room.entry = "connect"
    /\ room' = [room EXCEPT !.entry = "waitForParticipant"]
    /\ EntryFrame

\* a participant joins the room
ParticipantJoins ==
    /\ room.entry # "none"
    /\ room.participant = "absent"
    /\ room' = [room EXCEPT !.participant = "present"]
    /\ EntryFrame

\* await ctx.waitForParticipant()
entry_waitForParticipant ==
    /\ room.entry = "waitForParticipant"
    /\ room.participant = "present"
    /\ room' = [room EXCEPT !.entry = "start"]
    /\ EntryFrame

\* await agent.start(ctx.room, participant) resolves; the rest of entry runs
\* without another await: greeting, first response, and (agent.ts and the
\* price variant) the registration of the disconnect handler
entry_start ==
    /\ room.entry = "start"
    /\ room' = [room EXCEPT !.entry = "returned",
                            !.session = SessionSetup(variant),
                            !.listening = Listens(variant)]
    /\ EntryFrame

\* the participant leaves: the room will emit participantDisconnected
ParticipantLeaves ==
    /\ room.participant = "present"
    /\ room' = [room EXCEPT !.participant = "gone",
                            !.events = Append(@, "participantDisconnected")]
    /\ EntryFrame

\* the room emits the event: the handler, if one is registered by now,
\* calls session.close(); an event without a handler is dropped
participantDisconnected ==
    /\ room.events # <<>>
    /\ room' = [room EXCEPT !.events = Tail(@),
                            !.session = IF room.listening
                                        THEN Append(@, "close") ELSE @]
    /\ EntryFrame

\* the session exists and was not closed: the model may invoke tools
Serving ==
    /\ room.entry = "returned"
    /\ \A i \in 1..Len(room.session) : room.session[i] # "close"

InitEntry ==
    /\ variant \in Agents
    /\ pc = "idle"
    /\ op = "none"
    /\ args = <<>>
    /\ local = NoLocal
    /\ calls = <<>>
    /\ result = NoResult
    /\ conf = NoConfirmation
    /\ reply = "none"
    /\ chainTable = CHAIN_IDS
    /\ env = ProcessEnv
    /\ other = NoSession
    /\ room = NewJob

NextEntry ==
    \/ entry_connect
    \/ ParticipantJoins
    \/ entry_waitForParticipant
    \/ entry_start
    \/ ParticipantLeaves
    \/ participantDisconnected
    \/ Serving /\ \E name \in SessionIdentifiers : confirmEnsName(name)
    \/ Serving /\ \E currentAttempt \in SessionIdentifiers :
                     spellEnsName(currentAttempt)
    \/ Deliver

SpecEntry == InitEntry /\ [][NextEntry]_vars

----------------------------------------------------------------------------
(* Properties *)

Lookups == {"getWalletBalance", "getTransactionHistory"}
ChainOps == Lookups \cup {"getTokenPrice"}
DispatchOps == ChainOps \cup {"createCircleWallet", "fundWallet"}

\* the positions of the requests of this invocation that went to `api`
Requests(api) == {i \in 1..Len(calls) : calls[i].api = api}

\* the invocation ended by returning the text of template `tmpl`
ReturnedText(tmpl) ==
    pc = "done" /\ result.outcome = "returned" /\ result.text.tmpl = tmpl

\* C1: getWalletBalance and getTransactionHistory pass an identifier to name
\* resolution or to the balance/history provider only if the confirmation
\* protocol ended with "yes" for that identifier earlier in the same turn.
C1_LookupOnlyAfterConfirmation ==
    (op \in Lookups /\ calls # <<>>)
        => (conf.state = "Confirmed" /\ conf.id = args.addressOrName)

\* the identifier of a lookup is a raw address or a name that normalizes
WellFormed(a) ==
    "addressOrName" \in DOMAIN a
        => (startsWith(a.addressOrName, Ox) \/ ensNameOf(a.addressOrName).ok)

\* C2: with a chain outside the registry, every operation that takes a
\* chain issues no request at all and ends with an "unknown chain" text.
C2_UnknownChainRejected ==
    (op \in ChainOps /\ args.chain \notin DOMAIN CHAIN_IDS /\ WellFormed(args))
        => /\ calls = <<>>
           /\ pc = "done" => ReturnedText("unknown chain")

\* C3: getTransactionHistory with a limit above 100 issues no request at
\* all, neither name resolution nor history, and returns the maximum-limit
\* text, for a raw address and for a name alike.
C3_OverLimitRejectedLocally ==
    (op = "getTransactionHistory" /\ args.limit.given /\ args.limit.n > MaxLimit
        /\ WellFormed(args))
        => /\ calls = <<>>
           /\ pc = "done" => ReturnedText("maximum limit")

\* C4: none of the five dispatch operations, in any program, ends by
\* throwing: each ends by returning text.
C4_ErrorsBecomeText ==
    (pc = "done" /\ op \in DispatchOps) => result.outcome = "returned"

\* C5: createCircleWallet(b, t) sends one request, for exactly one wallet of
\* account type t on blockchain b, and the success text reports the address
\* and blockchain of the wallet the provider created.
C5_OneWalletAsAsked ==
    op = "createCircleWallet"
        => /\ Len(calls) = 1
           /\ calls[1].api = "createWallets"
           /\ calls[1].count = 1
           /\ calls[1].accountType = args.accountType
           /\ calls[1].blockchains = <<args.blockchain>>
           /\ ReturnedText("created")
                => /\ result.text.address = local.wallet.address
                   /\ result.text.walletBlockchain = local.wallet.blockchain

\* C6: an input that begins with "0x" is used unchanged as the resolved
\* address by getWalletBalance and getTransactionHistory, and name
\* resolution is never invoked for it.
C6_AddressPassedThrough ==
    (op \in Lookups /\ startsWith(args.addressOrName, Ox))
        => /\ Requests("getEnsAddress") = {}
           /\ \A i \in 1..Len(calls) : calls[i].address = args.addressOrName
           /\ (ReturnedText("balances") \/ ReturnedText("transactions"))
                => result.text.resolvedAddress = args.addressOrName

C6_Witness ==
    /\ op = "getWalletBalance"
    /\ startsWith(args.addressOrName, Ox)
    /\ ReturnedText("balances")
    /\ calls = <<BalanceRequest(ChainIdOf(args.chain), args.addressOrName)>>

\* C7: the address sent to the balance or history provider is never empty,
\* and when name resolution gives no match the invocation returns the
\* not-resolved text and sends nothing to the provider.
C7_NoDispatchWithoutAddress ==
    op \in Lookups
        => /\ \A i \in Requests("balance") \cup Requests("history") :
                 calls[i].address # <<>>
           /\ (local.address.kind = "null"
                  \/ (local.address.kind = "address" /\ local.address.address = <<>>))
                => /\ Requests("balance") \cup Requests("history") = {}
                   /\ ReturnedText("could not resolve")

C7_Witness ==
    /\ op \in Lookups
    /\ local.address.kind = "null"
    /\ calls = <<EnsRequest(local.ensName)>>
    /\ ReturnedText("could not resolve")

lowerCase(s) == [i \in 1..Len(s) |-> toLowerCase(s[i])]

\* how many times the name ends in ".eth"
RECURSIVE SuffixCount(_)
SuffixCount(s) ==
    IF endsWith(s, Eth) THEN 1 + SuffixCount(SubSeq(s, 1, Len(s) - Len(Eth))) ELSE 0

\* the name-like input x was normalized to y
SuffixedOnce(x, y) ==
    /\ SuffixCount(lowerCase(x)) = 0 => y = lowerCase(x) \o Eth
    /\ SuffixCount(lowerCase(x)) > 0 => SuffixCount(y) = SuffixCount(lowerCase(x))
    /\ ensNameOf(y).ok
    /\ ensNameOf(y).name = y

\* C8: normalization appends ".eth" exactly once to a name-like input that
\* lacks it, leaves the number of suffixes of an input that carries it
\* unchanged (also when the suffix is written in another letter case), and
\* is idempotent.
C8_SuffixOnceAndIdempotent ==
    /\ (op = "confirmEnsName" /\ ReturnedText("confirm")
           /\ ~startsWith(args.name, Ox))
         => SuffixedOnce(args.name, result.text.ensName)
    /\ (op \in Lookups /\ Requests("getEnsAddress") # {})
         => SuffixedOnce(args.addressOrName, calls[1].name)

\* the part of C8 the code keeps: normalizing a normalized name changes nothing
NormalizationIdempotent ==
    (op = "confirmEnsName" /\ ReturnedText("confirm"))
        => /\ ensNameOf(result.text.ensName).ok
           /\ ensNameOf(result.text.ensName).name = result.text.ensName

\* the token search answered with an empty list
EmptySearch ==
    /\ local.searchData.shape = "array"
         \/ (local.searchData.shape = "object" /\ local.searchData.hasTokens)
    /\ local.searchData.items = <<>>

\* C9: when the token search returns an empty list getTokenPrice returns the
\* not-found text and never asks for the spot price; the spot price is asked
\* only after a search that succeeded with at least one result.
C9_NoPriceWithoutToken ==
    op = "getTokenPrice"
        => /\ EmptySearch
                => /\ Requests("price") = {}
                   /\ pc = "done"
                   /\ ReturnedText("token not found")
           /\ Requests("price") # {}
                => /\ Requests("price") = {2}
                   /\ calls[1].api = "search"
                   /\ local.searchData.shape \in {"array", "object"}
                   /\ Len(local.searchData.items) >= 1

C9_Witness ==
    /\ op = "getTokenPrice"
    /\ local.searchData.shape = "array"
    /\ local.searchData.items = <<>>
    /\ calls = <<SearchRequest(ChainIdOf(args.chain), args.tokenName)>>
    /\ ReturnedText("token not found")

\* C10: without a limit getTransactionHistory makes exactly one history
\* request, with limit 10; a limit that is given is never replaced by the
\* default.
C10_DefaultLimitOnlyWhenUnspecified ==
    op = "getTransactionHistory"
        => /\ Cardinality(Requests("history")) <= 1
           /\ ~args.limit.given
                => /\ \A i \in Requests("history") : calls[i].limit = DefaultLimit
                   /\ (pc = "history" \/ ReturnedText("transactions"))
                        => Cardinality(Requests("history")) = 1
           /\ args.limit.given
                => \A i \in Requests("history") : calls[i].limit = args.limit.n

\* the endpoints of the external providers
Apis == {"getEnsAddress", "balance", "history", "search", "price",
         "createWallets", "faucet"}

\* the part of C11 that every program keeps: no endpoint is called twice in
\* one invocation, whatever the providers answered
NoRetry ==
    op \in DispatchOps => \A api \in Apis : Cardinality(Requests(api)) <= 1

\* C11: in one invocation of a dispatch operation every provider endpoint is
\* called at most once, also after a failed or non-2xx answer, and the
\* invocation yields exactly one result, which is returned: none while the
\* handler runs, one returned text when it has ended.
C11_SingleAttemptOneResult ==
    op \in DispatchOps
        => /\ \A api \in Apis : Cardinality(Requests(api)) <= 1
           /\ pc # "done" => result = NoResult
           /\ pc = "done" => result.outcome = "returned"

\* t is s letter by letter: the characters of s in their order, ", " between
\* one and the next, nothing before the first and nothing after the last
Spelled(s, t) ==
    /\ Len(t) = IF Len(s) = 0 THEN 0 ELSE 3 * Len(s) - 2
    /\ \A i \in 1..Len(s) : t[3 * i - 2] = s[i]
    /\ \A i \in 1..(Len(s) - 1) : t[3 * i - 1] = "," /\ t[3 * i] = " "

\* the user said "no" to the confirmation prompt and no tool has answered yet
RefusedProposal == pc = "idle" /\ conf.state = "Proposed" /\ reply = "no"

SpellStep == \E currentAttempt \in Identifiers : spellEnsName(currentAttempt)

AnsweredNon2xx ==
    /\ op \in Lookups
    /\ pc = "done"
    /\ local.response.kind = "response"
    /\ local.response.status \notin 200..299

\* C13: when the balance or history provider answers with a non-2xx status
\* the invocation returns a failure text, never the success text, and the
\* failure text ends with the status code of that answer.
C13_Non2xxIsFailureWithStatus ==
    AnsweredNon2xx
        => /\ result.outcome = "returned"
           /\ result.text.tmpl
                = IF op = "getWalletBalance" THEN "balance error" ELSE "history error"
           /\ Len(result.text.message) = 2
           /\ result.text.message[2] = local.response.status

C13_Witness ==
    /\ AnsweredNon2xx
    /\ op = "getTransactionHistory"
    /\ local.response.status = 404
    /\ ReturnedText("history error")
    /\ result.text.message = StatusError(HistoryStatusPrefix(variant), 404)

\* the identifier holds a character the naming scheme does not allow
HasIllegalCharacter(name) == \E i \in 1..Len(name) : name[i] \in Disallowed

InvalidName == <<"disallowed character">>

\* the part of C14 the code keeps: the lookups report the invalid name as
\* text and send nothing
InvalidNameReportedByLookups ==
    (op \in Lookups /\ ~startsWith(args.addressOrName, Ox)
        /\ HasIllegalCharacter(args.addressOrName))
        => /\ calls = <<>>
           /\ ReturnedText("balance error") \/ ReturnedText("history error")
           /\ result.text.message = InvalidName

\* C14: for an identifier with an illegal character the two lookups and
\* confirmEnsName make no network call and end by returning a text that
\* reports the invalid name.
C14_InvalidNameReportedAsText ==
    /\ InvalidNameReportedByLookups
    /\ (op = "confirmEnsName" /\ HasIllegalCharacter(args.name))
        => /\ calls = <<>>
           /\ pc = "done"
           /\ result.outcome = "returned"

\* name resolution answered, with no match
NameNotFound ==
    /\ op \in Lookups
    /\ pc = "done"
    /\ local.address.kind = "null"
         \/ (local.address.kind = "address" /\ local.address.address = <<>>)

\* C15: when name resolution gives no match the invocation returns the
\* not-resolved text, and the name in that text is the one the resolver was
\* asked for: normalized, ending in ".eth", and not the raw input where the
\* two differ.
C15_NotFoundCarriesCanonicalName ==
    NameNotFound
        => /\ ReturnedText("could not resolve")
           /\ calls = <<EnsRequest(result.text.ensName)>>
           /\ endsWith(result.text.ensName, Eth)
           /\ normalize(result.text.ensName).ok
           /\ normalize(result.text.ensName).name = result.text.ensName
           /\ result.text.ensName = ensNameOf(args.addressOrName).name

C15_Witness ==
    /\ NameNotFound
    /\ op = "getTransactionHistory"
    /\ args.addressOrName = <<"A", "b">>
    /\ ReturnedText("could not resolve")
    /\ result.text.ensName = <<"a", "b", ".", "e", "t", "h">>
    /\ calls = <<EnsRequest(result.text.ensName)>>

\* the part of C16 the code keeps: the not-resolved text is returned only
\* after name resolution answered with no match
NotResolvedOnlyWhenNoMatch ==
    ReturnedText("could not resolve")
        => /\ op \in Lookups
           /\ local.address.kind = "null"
                \/ (local.address.kind = "address" /\ local.address.address = <<>>)

\* C16: a not-found text is returned only when the provider answered with
\* no match: the token search with an empty list of tokens, name resolution
\* with no address. A body that is not a list of tokens, a failed request or
\* a non-2xx answer is never reported as not found.
C16_NotFoundOnlyWhenNoMatch ==
    /\ NotResolvedOnlyWhenNoMatch
    /\ ReturnedText("token not found") => EmptySearch

ConfirmationOps == {"confirmEnsName", "spellEnsName"}

\* the identifier a step of the confirmation protocol was given
Attempt == IF op = "confirmEnsName" THEN args.name ELSE args.currentAttempt

\* the part of C17 the code keeps: the confirmation protocol sends nothing
ConfirmationCallsNoProvider == op \in ConfirmationOps => calls = <<>>

\* C17: confirmEnsName and spellEnsName make no external call; given the
\* empty identifier they return a request to repeat instead of a prompt,
\* and given any other identifier they return their prompt, with no other
\* outcome.
C17_EmptyRejectedElsePrompt ==
    op \in ConfirmationOps
        => /\ calls = <<>>
           /\ pc = "done"
           /\ result.outcome = "returned"
           /\ Attempt = <<>> => result.text.tmpl \notin {"confirm", "spell"}
           /\ Attempt # <<>>
                => result.text.tmpl
                     = IF op = "confirmEnsName" THEN "confirm" ELSE "spell"

Awaiting == pc = "idle" /\ conf.state \in {"Proposed", "Spelling"} /\ reply = "none"

YesStep == UserReplies("yes")
NoStep == UserReplies("no")

\* the part of C18 the code and its instructions keep: "yes" confirms the
\* identifier that was proposed or spelled, nothing else does, and no answer
\* of the user is taken in Confirmed: the state is left only when a new
\* identifier is proposed or the turn ends
YesConfirmsAndConfirmedIsTerminal ==
    [][/\ Awaiting => ENABLED (YesStep /\ conf' = [conf EXCEPT !.state = "Confirmed"])
       /\ (conf'.state = "Confirmed" /\ conf.state # "Confirmed")
            => /\ Awaiting
               /\ conf'.id = conf.id
       /\ conf.state = "Confirmed"
            => /\ ~ENABLED YesStep
               /\ ~ENABLED NoStep
               /\ conf' # conf
                    => \/ conf' = NoConfirmation
                       \/ op' = "confirmEnsName" /\ conf'.state = "Proposed"]_vars

\* C18: "yes" in Proposed or Spelling moves to Confirmed, no answer leaves
\* Confirmed, and an identifier reaches name resolution or a provider only
\* while the protocol is in Confirmed.
C18_ConfirmedTerminalAndRequired ==
    /\ Awaiting => ENABLED (YesStep /\ conf' = [conf EXCEPT !.state = "Confirmed"])
    /\ conf.state = "Confirmed" => ~ENABLED YesStep /\ ~ENABLED NoStep
    /\ (op \in Lookups /\ calls # <<>>) => conf.state = "Confirmed"

ConfirmationStates == {"Idle", "Proposed", "Spelling", "Confirmed"}

\* the step that answers a "no": the attempt is spelled and the protocol is
\* in Spelling, waiting for the next answer
SpellsAgain ==
    /\ SpellStep
    /\ conf'.state = "Spelling"
    /\ result' = Returned(SpellPrompt(join(args'.currentAttempt)))
    /\ reply' = "none"

\* C19: however many times the user has answered "no" (every count up to
\* MaxRounds), a further "no" is accepted as long as the count goes on,
\* every "no" can be answered by spellEnsName, which emits its prompt and
\* re-enters Spelling, and the protocol has no state of failure.
C19_SpellingRoundsUnbounded ==
    /\ conf.state \in ConfirmationStates
    /\ conf.refusals \in 0..MaxRounds
    /\ (Awaiting /\ conf.refusals < MaxRounds) => ENABLED NoStep
    /\ (pc = "idle" /\ reply = "no") => ENABLED SpellsAgain
    /\ (op = "spellEnsName" /\ pc = "done") => ReturnedText("spell")

C19_Witness ==
    /\ op = "spellEnsName"
    /\ conf.state = "Spelling"
    /\ conf.refusals = MaxRounds
    /\ reply = "none"
    /\ ReturnedText("spell")

\* the two sessions each hold the outcome of an invocation of the same
\* handler with the same arguments, and the handlers read the same answers
\* of the providers
SameInvocation ==
    /\ pc = "done"
    /\ other.pc = "done"
    /\ op = other.op
    /\ args = other.args
    /\ local.address = other.local.address
    /\ local.response = other.local.response
    /\ local.data = other.local.data

\* C20: under every interleaving of two sessions, invocations with the same
\* arguments and the same provider answers have the same result whatever
\* the other session did meanwhile, and the chain table the sessions share
\* keeps the content it was created with.
C20_SessionsDoNotInterfere ==
    /\ chainTable = CHAIN_IDS
    /\ SameInvocation => result = other.result

\* one session has its balance while the other, invoked with the same
\* arguments, still waits for the provider
C20_Witness ==
    /\ op = "getWalletBalance"
    /\ other.op = "getWalletBalance"
    /\ args = other.args
    /\ other.pc = "balance"
    /\ other.calls = calls
    /\ ReturnedText("balances")
    /\ result = Returned(BalanceText(args.addressOrName, local.resolvedAddress,
                                     local.data))
    /\ chainTable = CHAIN_IDS

\* the two runs each hold the outcome of an invocation of the same dispatch
\* operation with the same arguments and the same answers of the providers
RunsAlike ==
    /\ SameInvocation
    /\ op \in DispatchOps
    /\ local.wallet = other.local.wallet

\* the part of C21 the code keeps: with credentials that can be sent as a
\* header the text is the same whatever the credential
TextIndependentOfSendableCredentials ==
    (RunsAlike /\ IsHeaderValue(Authorization(env.INCH_API_KEY))
        /\ IsHeaderValue(Authorization(other.env.INCH_API_KEY)))
        => result = other.result

\* C21: two runs that differ only in their credentials return the same text
\* for the same invocation: no text of a dispatch operation depends on a
\* credential.
C21_TextIndependentOfCredentials ==
    (RunsAlike /\ env # other.env) => result = other.result

\* getWalletBalance was given a name on a registered chain, the name
\* resolved to an address and the balance provider answered with a payload
BalanceOfNameSucceeded ==
    /\ op = "getWalletBalance"
    /\ pc = "done"
    /\ ~startsWith(args.addressOrName, Ox)
    /\ args.chain \in DOMAIN CHAIN_IDS
    /\ local.address.kind = "address"
    /\ local.address.address # <<>>
    /\ local.response.kind = "response"
    /\ local.response.status \in 200..299
    /\ local.data \in BalancePayloads

\* C22: for a name on a registered chain that resolves to A, with a balance
\* answer P, getWalletBalance asks the balance provider once, with the chain
\* id the table gives ("1" for ethereum) and with A, and returns the text
\* made of the identifier as the user gave it, A and P.
C22_BalanceOfResolvedName ==
    BalanceOfNameSucceeded
        => /\ Len(calls) = 2
           /\ calls[1] = EnsRequest(local.ensName)
           /\ calls[2] = BalanceRequest(CHAIN_IDS[args.chain], local.address.address)
           /\ args.chain = "ethereum" => calls[2].chainId = "1"
           /\ result = Returned(BalanceText(args.addressOrName,
                                            local.address.address, local.data))

C22_Witness ==
    /\ BalanceOfNameSucceeded
    /\ conf = [state |-> "Confirmed", id |-> args.addressOrName, refusals |-> 0]
    /\ args = [addressOrName |-> <<"A", "b">>, chain |-> "ethereum"]
    /\ calls[2] = BalanceRequest("1", <<"0", "x", "c", "d">>)
    /\ result = Returned(BalanceText(<<"A", "b">>, <<"0", "x", "c", "d">>, "P1"))

\* the faucet answered with a 2xx status
FaucetAccepted ==
    local.response.kind = "response" /\ local.response.status \in 200..299

\* the part of C23 every program keeps: one request with the arguments,
\* success only after a 2xx answer, and never success after another answer
OneFundingRequest ==
    op = "fundWallet"
        => /\ calls = <<FaucetRequest(args.address, args.blockchain)>>
           /\ ReturnedText("funded")
                => /\ FaucetAccepted
                   /\ result.text.status \in {b.status : b \in FaucetBodies}
                   /\ result.text.address = args.address
                   /\ result.text.blockchain = args.blockchain

\* C23: fundWallet issues exactly one funding request, with the address and
\* blockchain it was given; it returns the success text, with the status the
\* provider reported, only after a 2xx answer, and returns the failure text
\* after any other answer.
C23_FundOnceSuccessOnly2xx ==
    /\ OneFundingRequest
    /\ (op = "fundWallet" /\ pc = "done" /\ ~FaucetAccepted)
         => ReturnedText("fund failed")

\* the part of C24 the code keeps: whatever does not end in ".eth" is
\* echoed with the suffix, whatever does is echoed without a second one
SuffixAppendedOnce ==
    ReturnedText("confirm")
        => result.text.ensName = normalize(withSuffix(args.name)).name

\* C24: for an input that is a raw address (prefix "0x"), confirmEnsName
\* echoes the address as it is, without ".eth" appended.
C24_AddressEchoedWithoutSuffix ==
    (ReturnedText("confirm") /\ IsAddress(args.name))
        => result.text.ensName = args.name

\* the history requests of the current invocation
HistoryRequests == {i \in 1..Len(calls) : calls[i].api = "history"}

\* the part of C25 the code keeps: no limit above the ceiling is sent, zero
\* is replaced by the default, and a limit in 1..100 is sent as given
LimitAtMostCeiling ==
    \A i \in HistoryRequests :
        /\ calls[i].limit <= MaxLimit
        /\ calls[i].limit # 0
        /\ (args.limit.given /\ args.limit.n \in 1..MaxLimit)
             => calls[i].limit = args.limit.n

\* C25: every limit sent to the history provider lies in 1..100; a limit
\* above 100, zero or negative is never forwarded as given, and a supplied
\* limit in 1..100 is forwarded unchanged.
C25_LimitSentWithinRange ==
    \A i \in HistoryRequests :
        /\ calls[i].limit \in 1..MaxLimit
        /\ (args.limit.given /\ args.limit.n \in 1..MaxLimit)
             => calls[i].limit = args.limit.n

\* C26: getTokenPrice takes the first element of the search result, asks
\* the spot price for that element's address only, and reports the price the
\* answer holds under that address with the element's name and symbol.
C26_FirstTokenPricedByAddress ==
    (op = "getTokenPrice" /\ Len(calls) = 2)
        => LET first == local.searchData.items[1] IN
           /\ local.token = first
           /\ calls[2] = PriceRequest(ChainIdOf(args.chain), <<first.address>>)
           /\ ReturnedText("price")
                => /\ result.text.name = first.name
                   /\ result.text.symbol = first.symbol
                   /\ first.address \in DOMAIN local.data
                        => result.text.price = local.data[first.address]

\* a search that found two different tokens, and a price answer that holds
\* a price for each of them
C26_Witness ==
    /\ op = "getTokenPrice"
    /\ ReturnedText("price")
    /\ Len(local.searchData.items) = 2
    /\ local.searchData.items[1].address # local.searchData.items[2].address
    /\ DOMAIN local.data = TokenAddresses
    /\ local.data[local.searchData.items[1].address]
         # local.data[local.searchData.items[2].address]
    /\ result.text.price = local.data[local.searchData.items[1].address]

\* the two programs each hold the outcome of an invocation of the same
\* shared operation with the same arguments and the same provider answers
SameInvocationInBoth ==
    /\ SameInvocation
    /\ op \in SharedOps
    /\ local.wallet.address = other.local.wallet.address

\* the part of C27 the code keeps: the confirmation tools and the two
\* lookups issue the same requests and return the same text in both programs
LookupsEquivalent ==
    (SameInvocationInBoth /\ op \notin {"createCircleWallet", "fundWallet"})
        => calls = other.calls /\ result = other.result

\* C27: for the same arguments and the same provider answers, tools.ts and
\* agent.ts issue the same external requests and end with the same outcome
\* on every operation both define.
C27_ServerAndAgentEquivalent ==
    SameInvocationInBoth => calls = other.calls /\ result = other.result

\* this session holds the prompt of confirmEnsName(x) and the other session
\* has invoked a lookup of the same x, which is not a raw address
ConfirmedAndLookedUp ==
    /\ ReturnedText("confirm")
    /\ other.op \in {"getWalletBalance", "getTransactionHistory"}
    /\ other.args.addressOrName = args.name
    /\ ~startsWith(args.name, Ox)

\* C28: for every name-like input x, the name confirmEnsName(x) echoes to the
\* user is the name getWalletBalance(x) and getTransactionHistory(x) send to
\* name resolution.
C28_EchoedNameIsLookedUp ==
    ConfirmedAndLookedUp
        => /\ Len(other.calls) >= 1
           /\ other.calls[1].api = "getEnsAddress"
           /\ other.calls[1].name = result.text.ensName

\* "Ab" is echoed as "ab.eth", and the history lookup of "Ab" has resolved
\* "ab.eth" and gone on to the history provider
C28_Witness ==
    /\ ConfirmedAndLookedUp
    /\ args.name = <<"A", "b">>
    /\ result.text.ensName = <<"a", "b", ".", "e", "t", "h">>
    /\ other.op = "getTransactionHistory"
    /\ Len(other.calls) = 2
    /\ other.calls[1].name = <<"a", "b", ".", "e", "t", "h">>

\* the part of C29 the code keeps: an answer whose wallet list is empty, or
\* a rejected request, never yields the success text
NoSuccessOnEmptyOrRejected ==
    (op = "createCircleWallet" /\ local.response.kind \in {"empty", "reject"})
        => ~ReturnedText("created")

\* C29: createCircleWallet returns the "Successfully created" text only
\* when the answer of the custody provider holds a wallet; an answer without
\* wallet data ends in a failure.
C29_SuccessOnlyWithWallet ==
    (op = "createCircleWallet" /\ ReturnedText("created"))
        => /\ local.response.kind = "wallet"
           /\ result.text.address = local.wallet.address

\* the session was closed
Closed == \E i \in 1..Len(room.session) : room.session[i] = "close"

\* the greeting item is created before the first response is requested
GreetingBeforeResponse ==
    \A i \in 1..Len(room.session) :
        room.session[i] = "response.create"
            => \E j \in 1..(i - 1) : room.session[j] = "conversation.item.create"

\* the part of C30 the code keeps: a disconnect event emitted while the
\* handler is registered closes the session
ListenerClosesSession ==
    [][(room.events # <<>> /\ room.listening /\ room'.events = Tail(room.events))
          => room'.session = Append(room.session, "close")]_vars

\* C30: in every agent variant the greeting item is created before the first
\* response is requested, and once the participant has disconnected the
\* realtime session is closed: when entry has returned, the participant is
\* gone and the room has no event left to emit, the session was closed.
C30_ClosedAfterDisconnect ==
    /\ GreetingBeforeResponse
    /\ (room.entry = "returned" /\ room.participant = "gone" /\ room.events = <<>>)
         => Closed

====
